---- MODULE Spec2Model ----
(***************************************************************************)
(* Bollinger Bands breakout scanner (src/app.py).                          *)
(*                                                                         *)
(* The Streamlit script is one top-to-bottom run per page load: parse the  *)
(* symbol list, read the two sidebar numbers, scan every symbol with       *)
(* analyze_stock, partition the results and render the two sections.       *)
(* fetch_data is memoised by st.cache_data, which lives as long as the     *)
(* server process, so it is the only state that survives a run.            *)
(*                                                                         *)
(* Numbers.  Prices are small integers.  A band is kept exactly, as the    *)
(* window's sum S and p*SumSq - S^2 = V together with the signed           *)
(* multiplier k (in tenths): its value is S/p + (k/10)*sqrt(V/(p*(p-1))).  *)
(* Comparisons against a band are decided exactly on these integers.       *)
(***************************************************************************)
EXTENDS Integers, Sequences, FiniteSets, TLC

VARIABLES
    today,       \* date.today(), as a day number
    cache,       \* st.cache_data store of fetch_data: symbol -> entry
    uploaded,    \* the file in the sidebar's uploader (its characters), or NoFile
    runs,        \* number of script runs started in this server process
    symbols,     \* the parsed symbol list of the current run
    bb_period,   \* sidebar "Periodo Bollinger"
    bb_std,      \* sidebar "Deviazioni Standard", in tenths
    pc,          \* position of the script
    i,           \* position of the scan loop in symbols (1-based)
    data,        \* what fetch_data returned to the latest analyze_stock
    r,           \* what the latest analyze_stock returned (or that it raised)
    served,      \* the window the request was made in and the one the answer was fetched in
    results,     \* the list results of the run
    bullish,     \* the list bullish
    bearish,     \* the list bearish
    screen       \* the elements rendered by the run, in order

vars == << today, cache, uploaded, runs, symbols, bb_period, bb_std, pc, i, data, r,
           served, results, bullish, bearish, screen >>

----------------------------------------------------------------------------
(* Bounds of the model *)

\* periods explored: MinPeriod .. MinPeriod + PeriodSpan
PeriodSpan == 1
\* raw series lengths explored: bb_period + 1 .. bb_period + 2 + ExtraRows
ExtraRows == 1
\* closing prices of the last three bars range over 1 .. MaxPrice
MaxPrice == 3
\* the closing price of every bar before the last three
BasePrice == 2
\* number of times the calendar day changes
MaxDays == 1
\* number of script runs in one server process
MaxRuns == 2
\* length of the built-in list's prefix that is scanned
DefaultLen == 2
\* longest uploaded file, in characters
MaxFileLen == 3

----------------------------------------------------------------------------
(* Program constants *)

MinPeriod == 10
MinStd == 10
DefaultStd == 20
MaxStd == 30
WindowDays == 180

Periods == MinPeriod .. (MinPeriod + PeriodSpan)
Stds == {MinStd, DefaultStd, MaxStd}

----------------------------------------------------------------------------
(* Tables returned by the provider *)

\* One row of the provider's table: its date (the index), its Close, and
\* whether any of its cells is missing.
Row(d, c, m) == [date |-> d, close |-> c, nan |-> m]

Reverse(s) == [j \in 1..Len(s) |-> s[Len(s) + 1 - j]]

SwapLastTwo(s) ==
    IF Len(s) < 2 THEN s
    ELSE [j \in 1..Len(s) |->
            IF j = Len(s) THEN s[Len(s) - 1]
            ELSE IF j = Len(s) - 1 THEN s[Len(s)]
            ELSE s[j]]

Reorder(order, s) ==
    CASE order = "asc" -> s
      [] order = "desc" -> Reverse(s)
      [] order = "swap" -> SwapLastTwo(s)

\* Rows of n consecutive days ending on day `end - 1`, in ascending order:
\* BasePrice everywhere but on the last three bars, which close at tail.
AscRows(n, tail, mask, end) ==
    [j \in 1..n |->
        Row(end - 1 - n + j,
            IF j > n - 3 THEN tail[j - (n - 3)] ELSE BasePrice,
            j \in mask)]

\* yf.download's return value: the column shape and the rows in the order
\* the provider gives them.
Table(shape, order, n, tail, mask, end) ==
    [shape |-> shape, rows |-> Reorder(order, AscRows(n, tail, mask, end))]

EmptyTable == [shape |-> "flat", rows |-> << >>]

\* the rows with a missing cell: none, one, two, all, all but the first
Masks(n) == { {}, {1}, {1, 2}, {n - 1}, {n}, 1..n, 2..n }

Tails == [1..3 -> 1..MaxPrice]

Tables(p, end) ==
    UNION { { Table(sh, o, n, t, m, end) :
                sh \in {"flat", "nested"}, o \in {"asc", "desc", "swap"},
                t \in Tails, m \in Masks(n) } :
            n \in (p + 1)..(p + 2 + ExtraRows) }

----------------------------------------------------------------------------
(* analyze_stock *)

\* fetch_data's "return data if not data.empty else None"
NoData == [shape |-> "none", rows |-> << >>]

NotEmptyOrNone(t) == IF t.rows = << >> THEN NoData ELSE t

\* DataFrame.dropna(): every row with a missing cell goes
dropna(rows) == SelectSeq(rows, LAMBDA x : ~x.nan)

RECURSIVE SumClose(_, _, _)
SumClose(rows, a, b) ==
    IF a > b THEN 0 ELSE rows[b].close + SumClose(rows, a, b - 1)

RECURSIVE SumSqClose(_, _, _)
SumSqClose(rows, a, b) ==
    IF a > b THEN 0 ELSE rows[b].close * rows[b].close + SumSqClose(rows, a, b - 1)

NaN == [nan |-> TRUE, S |-> 0, V |-> 0, p |-> 0, k |-> 0]

\* MA + k * STD at row j: rolling(p).mean() and rolling(p).std() (sample
\* deviation, p - 1 in the denominator) over rows j-p+1 .. j; NaN on the
\* first p - 1 rows.
Band(rows, j, p, k) ==
    IF j < p THEN NaN
    ELSE LET S == SumClose(rows, j - p + 1, j)
             Q == SumSqClose(rows, j - p + 1, j)
         IN  [nan |-> FALSE, S |-> S, V |-> p * Q - S * S, p |-> p, k |-> k]

\* x |-> sign(x) * x^2, strictly increasing
SignedSquare(x) == IF x < 0 THEN -(x * x) ELSE x * x

\* close >= band, in place of close > band
GreaterOrEqual(close, band) ==
    /\ ~band.nan
    /\ SignedSquare(10 * (band.p * close - band.S)) * (band.p - 1)
          >= SignedSquare(band.k) * band.V * band.p

\* close > band and close < band; a comparison with NaN is False
GreaterThan(close, band) ==
    /\ ~band.nan
    /\ SignedSquare(10 * (band.p * close - band.S)) * (band.p - 1)
          > SignedSquare(band.k) * band.V * band.p

LessThan(close, band) ==
    /\ ~band.nan
    /\ SignedSquare(10 * (band.p * close - band.S)) * (band.p - 1)
          < SignedSquare(band.k) * band.V * band.p

Rialzista == << "Breakout", "Rialzista" >>
Ribassista == << "Breakout", "Ribassista" >>

NoneResult == [kind |-> "None"]
Raised == [kind |-> "Raised"]
Pending == [kind |-> "Pending"]

SignalResult(symbol, signal, close, upper, lower, signal_date) ==
    [kind |-> "Signal", Symbol |-> symbol, Segnale |-> signal, Close |-> close,
     Upper |-> upper, Lower |-> lower, Data |-> signal_date]

\* data.iloc[-1], the last row, in place of data.iloc[-2]
LastIndex(m) == m

\* data.iloc[-2] of a frame with m rows: row m - 1
CandleIndex(m) == m - 1

\* analyze_stock after its call of fetch_data returned d.  A table in the
\* nested column shape makes data["Close"] a frame, candle["Close"] a
\* Series, and "if close > upper" raises ValueError; iloc[-2] on fewer than
\* two rows raises IndexError.
analyze_stock(symbol, d, period, std) ==
    IF d = NoData \/ Len(d.rows) < period + 2 THEN NoneResult
    ELSE LET rows == dropna(d.rows)
             m == Len(rows)
         IN  IF m < 2 \/ d.shape = "nested" THEN Raised
             ELSE LET j == CandleIndex(m)
                      close == rows[j].close
                      upper == Band(rows, j, period, std)
                      lower == Band(rows, j, period, -std)
                      signal_date == rows[j].date
                  IN  IF GreaterThan(close, upper)
                        THEN SignalResult(symbol, Rialzista, close, upper, lower, signal_date)
                      ELSE IF LessThan(close, lower)
                        THEN SignalResult(symbol, Ribassista, close, upper, lower, signal_date)
                      ELSE NoneResult

----------------------------------------------------------------------------
(* Symbol list *)

DEFAULT_SYMBOLS_ALL ==
    << "AAPL", "MSFT", "NVDA", "META", "GOOGL", "AMZN", "TSLA", "NFLX",
       "AMD", "INTC", "CRM", "ORCL", "ADBE", "JPM", "BAC", "GS", "XOM",
       "CVX", "KO", "PEP", "DIS", "WMT", "COST", "SPY", "QQQ", "IWM" >>

\* the built-in list, cut to its first DefaultLen symbols
DEFAULT_SYMBOLS == SubSeq(DEFAULT_SYMBOLS_ALL, 1, DefaultLen)

NoFile == << "<none>" >>

Chars == {"a", "B", ","}

Whitespace == {" ", "\n"}

\* the files a user can upload: up to MaxFileLen characters
Uploads == UNION { [1..n -> Chars] : n \in 0..MaxFileLen }

\* str.replace(",", "\n")
ReplaceCommas(text) ==
    [j \in 1..Len(text) |-> IF text[j] = "," THEN "\n" ELSE text[j]]

\* str.split(): the maximal runs of non-whitespace characters, in order
RECURSIVE SplitFrom(_, _, _)
SplitFrom(text, j, cur) ==
    IF j > Len(text)
      THEN IF cur = << >> THEN << >> ELSE << cur >>
    ELSE IF text[j] \in Whitespace
      THEN (IF cur = << >> THEN << >> ELSE << cur >>) \o SplitFrom(text, j + 1, << >>)
    ELSE SplitFrom(text, j + 1, Append(cur, text[j]))

split(text) == SplitFrom(text, 1, << >>)

RECURSIVE strip(_)
strip(tok) ==
    IF tok = << >> THEN tok
    ELSE IF Head(tok) \in Whitespace THEN strip(Tail(tok))
    ELSE IF tok[Len(tok)] \in Whitespace THEN strip(SubSeq(tok, 1, Len(tok) - 1))
    ELSE tok

UpperChar(c) == IF c = "a" THEN "A" ELSE c

upper(tok) == [j \in 1..Len(tok) |-> UpperChar(tok[j])]

\* the characters of a token as one string
RECURSIVE Join(_)
Join(tok) == IF tok = << >> THEN "" ELSE Head(tok) \o Join(Tail(tok))

\* lines 37-41: the symbols of the run
ParseSymbols(uploaded_file) ==
    IF uploaded_file # NoFile
      THEN LET toks == split(ReplaceCommas(uploaded_file))
               kept == SelectSeq(toks, LAMBDA t : strip(t) # << >>)
           IN  [j \in 1..Len(kept) |-> Join(upper(strip(kept[j])))]
      ELSE DEFAULT_SYMBOLS

----------------------------------------------------------------------------
(* Scan and page *)

\* "Rialzista" in r["Segnale"]
Contains(word, segnale) == \E j \in 1..Len(segnale) : segnale[j] = word

Bullish(res) == SelectSeq(res, LAMBDA x : Contains("Rialzista", x.Segnale))

\* a test on a word both signal texts hold, in place of "Ribassista"
BearishAnyBreakout(res) == SelectSeq(res, LAMBDA x : Contains("Breakout", x.Segnale))

Bearish(res) == SelectSeq(res, LAMBDA x : Contains("Ribassista", x.Segnale))

\* results.insert(0, r), in place of results.append(r)
CollectInFront(res, x) == IF x.kind = "Signal" THEN << x >> \o res ELSE res

\* results.append(r) under "if r:"
Collect(res, x) == IF x.kind = "Signal" THEN Append(res, x) ELSE res

\* the sections without the guard "if symbols:"
RenderPageUnguarded(syms, bull, bear) ==
    << "title",
       "subheader_bullish", IF bull # << >> THEN "table_bullish" ELSE "info_bullish",
       "subheader_bearish", IF bear # << >> THEN "table_bearish" ELSE "info_bearish",
       "subheader_chart" >>
    \o (IF bull \o bear # << >> THEN << "chart" >> ELSE << >>)
    \o << "expander" >>

\* What the page shows after the scan: the sections under "if symbols:",
\* then the expander.
RenderPage(syms, bull, bear) ==
    << "title" >>
    \o (IF syms # << >>
          THEN << "subheader_bullish", IF bull # << >> THEN "table_bullish" ELSE "info_bullish",
                  "subheader_bearish", IF bear # << >> THEN "table_bearish" ELSE "info_bearish",
                  "subheader_chart" >>
               \o (IF bull \o bear # << >> THEN << "chart" >> ELSE << >>)
          ELSE << >>)
    \o << "expander" >>

\* An uncaught exception ends the run: Streamlit shows what was rendered
\* before it and the traceback.
AbortedPage == << "title", "exception" >>

\* end of fetch_data's window when called on day t
WindowEnd(t) == t + 1

WindowStart(t) == WindowEnd(t) - WindowDays

\* What yf.download can answer for a request with window end `end`:
\* nothing, a bullish, a bearish or a flat series of p + 2 bars, or a table
\* of p + 2 rows whose cells are all missing; or it raises.
ProviderTables(p, end) ==
    { EmptyTable,
      Table("flat", "asc", p + 2, << BasePrice, BasePrice + 1, BasePrice >>, {}, end),
      Table("flat", "asc", p + 2, << BasePrice, BasePrice - 1, BasePrice >>, {}, end),
      Table("flat", "asc", p + 2, << BasePrice, BasePrice, BasePrice >>, 1..(p + 2), end) }

Cached(sym) == sym \in DOMAIN cache

Init ==
    /\ today = 0
    /\ cache = << >>
    /\ uploaded \in Uploads \cup {NoFile}
    /\ runs = 0
    /\ symbols = << >>
    /\ bb_period \in Periods
    /\ bb_std \in Stds
    /\ pc = "idle"
    /\ i = 0
    /\ data = NoData
    /\ r = Pending
    /\ served = [asked |-> 0, fetched |-> 0]
    /\ results = << >>
    /\ bullish = << >>
    /\ bearish = << >>
    /\ screen = << >>

\* The partition and the sections, once the loop has ended.
Finish(syms, res) ==
    /\ bullish' = Bullish(res)
    /\ bearish' = Bearish(res)
    /\ screen' = RenderPage(syms, Bullish(res), Bearish(res))
    /\ pc' = "done"

\* A page load: the script starts, reads the upload and reaches the loop.
StartRun ==
    /\ pc \in {"idle", "done", "aborted"}
    /\ runs < MaxRuns
    /\ runs' = runs + 1
    /\ symbols' = ParseSymbols(uploaded)
    /\ results' = << >>
    /\ bullish' = << >>
    /\ bearish' = << >>
    /\ r' = Pending
    /\ data' = NoData
    /\ IF symbols' # << >>
         THEN /\ pc' = "scan"
              /\ i' = 1
              /\ screen' = << "title" >>
         ELSE /\ pc' = "done"
              /\ i' = 0
              /\ screen' = RenderPage(symbols', << >>, << >>)
    /\ UNCHANGED << today, cache, uploaded, bb_period, bb_std, served >>

\* One iteration of "for s in symbols", given what fetch_data returned (d,
\* fetched in the window ending at `end`); the last iteration runs on into
\* the partition and the sections.
Iterate(d, end) ==
    /\ data' = d
    /\ served' = [asked |-> WindowEnd(today), fetched |-> end]
    /\ r' = analyze_stock(symbols[i], d, bb_period, bb_std)
    /\ IF r'.kind = "Raised"
         THEN /\ pc' = "aborted"
              /\ screen' = AbortedPage
              /\ UNCHANGED << i, results, bullish, bearish >>
         ELSE /\ results' = Collect(results, r')
              /\ i' = i + 1
              /\ IF i = Len(symbols)
                   THEN Finish(symbols, results')
                   ELSE UNCHANGED << pc, screen, bullish, bearish >>

\* fetch_data answered from st.cache_data: the key is the symbol
ScanCached ==
    /\ pc = "scan"
    /\ Cached(symbols[i])
    /\ Iterate(cache[symbols[i]].value, cache[symbols[i]].end)
    /\ UNCHANGED << today, cache, uploaded, runs, symbols, bb_period, bb_std >>

\* fetch_data runs yf.download and its return value is stored
ScanFetched ==
    /\ pc = "scan"
    /\ ~Cached(symbols[i])
    /\ \E t \in ProviderTables(bb_period, WindowEnd(today)) :
          /\ cache' = (symbols[i] :> [value |-> NotEmptyOrNone(t), end |-> WindowEnd(today)]) @@ cache
          /\ Iterate(NotEmptyOrNone(t), WindowEnd(today))
    /\ UNCHANGED << today, uploaded, runs, symbols, bb_period, bb_std >>

\* yf.download raises: nothing is stored, the exception leaves the loop
ScanFetchRaises ==
    /\ pc = "scan"
    /\ ~Cached(symbols[i])
    /\ pc' = "aborted"
    /\ r' = Raised
    /\ screen' = AbortedPage
    /\ UNCHANGED << today, cache, uploaded, runs, symbols, bb_period, bb_std, i, data,
                    served, results, bullish, bearish >>

\* midnight passes
Tick ==
    /\ today < MaxDays
    /\ today' = today + 1
    /\ UNCHANGED << cache, uploaded, runs, symbols, bb_period, bb_std, pc, i, data, r,
                    served, results, bullish, bearish, screen >>

Next == StartRun \/ ScanCached \/ ScanFetched \/ ScanFetchRaises \/ Tick

Spec == Init /\ [][Next]_vars

----------------------------------------------------------------------------
(* analyze_stock on its own: every table of the family, every setting of  *)
(* the sidebar, one call.                                                  *)

InitAnalyze ==
    /\ today = 0
    /\ cache = << >>
    /\ uploaded = NoFile
    /\ runs = 1
    /\ symbols = DEFAULT_SYMBOLS
    /\ bb_period \in Periods
    /\ bb_std \in Stds
    /\ pc = "call"
    /\ i = 1
    /\ data \in Tables(bb_period, WindowEnd(0)) \cup {NoData}
    /\ r = Pending
    /\ served = [asked |-> WindowEnd(0), fetched |-> WindowEnd(0)]
    /\ results = << >>
    /\ bullish = << >>
    /\ bearish = << >>
    /\ screen = << "title" >>

AnalyzeCall ==
    /\ pc = "call"
    /\ r' = analyze_stock(symbols[i], data, bb_period, bb_std)
    /\ pc' = "returned"
    /\ UNCHANGED << today, cache, uploaded, runs, symbols, bb_period, bb_std, i,
                    data, served, results, bullish, bearish, screen >>

SpecAnalyze == InitAnalyze /\ [][AnalyzeCall]_vars

----------------------------------------------------------------------------
(* Properties *)

\* analyze_stock has been called and has returned or raised
Returned == r # Pending

IsSignal(x) == x.kind = "Signal"

\* the series the bands are computed on
Used == dropna(data.rows)

\* the call got past the length check and computed the bands on a flat table
Decided ==
    /\ r.kind \in {"Signal", "None"}
    /\ data # NoData
    /\ Len(data.rows) >= bb_period + 2
    /\ data.shape = "flat"
    /\ Len(Used) >= 2

\* the second-to-last bar of the series used, and its trailing window
RefIndex == Len(Used) - 1
RefClose == Used[RefIndex].close
RefDefined == RefIndex >= bb_period
RefSum == SumClose(Used, RefIndex - bb_period + 1, RefIndex)
RefSumSq == SumSqClose(Used, RefIndex - bb_period + 1, RefIndex)
\* p^2 (p - 1) times the sample variance
RefVar == bb_period * RefSumSq - RefSum * RefSum
\* p times (close - MA)
RefDev == bb_period * RefClose - RefSum
\* (close - MA)^2 against (k * STD)^2, both scaled by 100 p^2 (p - 1)
DevSq == 100 * RefDev * RefDev * (bb_period - 1)
WidthSq == bb_std * bb_std * RefVar * bb_period
AboveUpper == RefDefined /\ RefDev > 0 /\ DevSq > WidthSq
BelowLower == RefDefined /\ RefDev < 0 /\ DevSq > WidthSq
OnBand == RefDefined /\ DevSq = WidthSq

\* C1: a failure while one symbol is processed (the fetch raises, or the
\* series has fewer than two rows left after dropna) never aborts the scan.
C1_FailureIsolation == pc # "aborted"

\* C2: when the series left after dropna has fewer than period + 2 bars,
\* analyze_stock yields no signal.
C2_InsufficientHistory ==
    (Returned /\ Len(Used) < bb_period + 2) => ~IsSignal(r)

\* the table with the close of the last bar of the series used set to c
WithLastClose(d, c) ==
    LET last == CHOOSE j \in 1..Len(d.rows) :
                    /\ ~d.rows[j].nan
                    /\ \A h \in (j + 1)..Len(d.rows) : d.rows[h].nan
    IN  [d EXCEPT !.rows[last].close = c]

\* C3: the close, the bands and the date of a signal are those of the
\* second-to-last bar of the series used for the bands, and the outcome is
\* the same whatever the last bar closes at.
C3_ReferenceCandle ==
    Decided =>
        /\ IsSignal(r) =>
              /\ r.Close = RefClose
              /\ r.Data = Used[RefIndex].date
              /\ r.Upper = [nan |-> FALSE, S |-> RefSum, V |-> RefVar,
                            p |-> bb_period, k |-> bb_std]
              /\ r.Lower = [nan |-> FALSE, S |-> RefSum, V |-> RefVar,
                            p |-> bb_period, k |-> -bb_std]
        /\ \A c \in 1..MaxPrice :
              analyze_stock(symbols[i], WithLastClose(data, c), bb_period, bb_std) = r

C3_Witness ==
    /\ Decided
    /\ IsSignal(r)
    /\ Used[Len(Used)].close # RefClose
    /\ Used[Len(Used)].close # BasePrice

\* C4: Bullish exactly when the reference close is above the upper band,
\* otherwise Bearish exactly when it is below the lower band, otherwise no
\* signal; a close equal to a band gives no signal.
C4_StrictDecisionRule ==
    Decided =>
        /\ (IsSignal(r) /\ r.Segnale = Rialzista) <=> AboveUpper
        /\ (IsSignal(r) /\ r.Segnale = Ribassista) <=> (~AboveUpper /\ BelowLower)
        /\ (~AboveUpper /\ ~BelowLower) <=> (r = NoneResult)
        /\ OnBand => r = NoneResult

C4_Witness == Decided /\ OnBand /\ RefVar = 0 /\ r = NoneResult

\* what each symbol of the list produced, in the order of the list
Analyses ==
    [j \in 1..Len(symbols) |->
        analyze_stock(symbols[j], cache[symbols[j]].value, bb_period, bb_std)]

Scanned == pc = "done" /\ symbols # << >>

\* C5: after a scan that has run through its symbol list, each of the two
\* lists holds exactly the signals of its kind, in the order of the symbols
\* in the input, one entry per occurrence of a symbol.
C5_StablePartitionOrder ==
    Scanned =>
        /\ bullish = SelectSeq(Analyses, LAMBDA x : IsSignal(x) /\ x.Segnale = Rialzista)
        /\ bearish = SelectSeq(Analyses, LAMBDA x : IsSignal(x) /\ x.Segnale = Ribassista)

C5_Witness ==
    /\ Scanned
    /\ Len(bullish) = 2
    /\ bullish[1].Symbol # bullish[2].Symbol

\* C6: fetch_data answers a request only with a series fetched for the
\* window the request is made in.
C6_CacheKeyedByWindow == served.asked = served.fetched

InScreen(e) == \E j \in 1..Len(screen) : screen[j] = e

\* C7: an upload that parses to no symbol still shows both sections, each
\* with its notice.
C7_EmptyUniverseShowsSections ==
    (pc = "done" /\ uploaded # NoFile /\ symbols = << >>) =>
        /\ InScreen("subheader_bullish") /\ InScreen("info_bullish")
        /\ InScreen("subheader_bearish") /\ InScreen("info_bearish")

\* C7, amended: an upload that parses to no symbol runs no scan and shows
\* neither section and no notice, only the title and the expander.
C7_EmptyUniverseShowsNothing ==
    (pc = "done" /\ uploaded # NoFile /\ symbols = << >>) =>
        /\ screen = << "title", "expander" >>
        /\ results = << >> /\ bullish = << >> /\ bearish = << >>
        /\ r = Pending

C7_Witness ==
    /\ pc = "done"
    /\ uploaded # NoFile
    /\ Len(uploaded) > 0
    /\ symbols = << >>

\* C8: a table in the nested column shape gives the outcome of the flat
\* table with the same rows.
C8_NestedSameAsFlat ==
    (Returned /\ data.shape = "nested") =>
        r = analyze_stock(symbols[i], [data EXCEPT !.shape = "flat"], bb_period, bb_std)

\* C9: the outcome does not depend on the order in which the provider
\* returns the rows: it is that of the rows sorted by date.
C9_RowOrderIndependent ==
    Returned =>
        r = analyze_stock(symbols[i],
                [data EXCEPT !.rows = SortSeq(data.rows, LAMBDA a, b : a.date < b.date)],
                bb_period, bb_std)

Occurs(x, list) == \E j \in 1..Len(list) : list[j] = x

\* C10: no reference candle is both above the upper and below the lower
\* band, and after a scan that has run through its symbol list every result
\* is in exactly one of the two lists, which hold nothing else.
C10_ExactlyOnePartition ==
    /\ Decided =>
          ~(/\ GreaterThan(RefClose, Band(Used, RefIndex, bb_period, bb_std))
            /\ LessThan(RefClose, Band(Used, RefIndex, bb_period, -bb_std)))
    /\ Scanned =>
          /\ Len(bullish) + Len(bearish) = Len(results)
          /\ \A j \in 1..Len(results) :
                Occurs(results[j], bullish) # Occurs(results[j], bearish)
          /\ \A j \in 1..Len(bullish) : Occurs(bullish[j], results)
          /\ \A j \in 1..Len(bearish) : Occurs(bearish[j], results)

C10_Witness == Scanned /\ Len(bullish) = 1 /\ Len(bearish) = 1

====
